---- MODULE Spec2Model ----
(***************************************************************************)
(* Menu digitization pipeline: the OCR fallback chain, the structuring     *)
(* step and the canonical-menu save protocol (saveToSupabase), with the    *)
(* relational store they write to.  Every database call and every         *)
(* provider call is one atomic step of the process that issues it, so      *)
(* that concurrent pipeline runs interleave at the await points.           *)
(***************************************************************************)
EXTENDS Integers, Sequences, FiniteSets, TLC

\* ---------------------------------------------------------------- bounds
\* Total number of saveToSupabase calls started in one behaviour.
MaxRuns == 2
\* Total number of database calls that fail for a transient reason.
MaxFailures == 1

\* Concurrent pipeline executions.
Procs == {"p1", "p2"}

\* ------------------------------------------------------ program constants
BATCH_SIZE == 10

\* extractedText.trim().length < 20
MinTextLength == 20

\* The vision models, in order of preference.
OCR_MODEL_CHAIN ==
  << "meta-llama/llama-3.2-11b-vision-instruct:free",
     "qwen/qwen-2.5-vl-7b-instruct:free",
     "google/gemini-flash-1.5",
     "openai/gpt-4o-mini",
     "anthropic/claude-3-haiku",
     "anthropic/claude-3.5-sonnet" >>

\* ------------------------------------------------------------ text values
\* A string is a sequence of one-character strings.
Whitespace == {" ", "\n", "\t"}

RECURSIVE TrimLeft(_)
TrimLeft(s) ==
  IF s = <<>> THEN <<>>
  ELSE IF Head(s) \in Whitespace THEN TrimLeft(Tail(s)) ELSE s

RECURSIVE TrimRight(_)
TrimRight(s) ==
  IF s = <<>> THEN <<>>
  ELSE IF s[Len(s)] \in Whitespace THEN TrimRight(SubSeq(s, 1, Len(s) - 1)) ELSE s

\* String.prototype.trim
Trim(s) == TrimRight(TrimLeft(s))

Repeat(c, n) == [k \in 1..n |-> c]

\* The texts a vision model answers with; index 0 stands for a response
\* without choices[0].message.content.
OcrTexts ==
  << Repeat("x", 20),                          \* just long enough
     <<" ">> \o Repeat("x", 21) \o <<"\n">>,    \* long enough, with surrounding whitespace
     Repeat("x", 19),                          \* one character short
     <<" ">> \o Repeat("x", 19) \o <<" ">>,     \* 21 characters, 19 after trimming
     Repeat(" ", 22),                          \* whitespace only
     << >> >>                                  \* the empty string

NoContent == 0

\* The length check applied to the untrimmed text.
InsufficientTextUntrimmed(t) ==
  \/ t = NoContent
  \/ OcrTexts[t] = << >>
  \/ Len(OcrTexts[t]) < MinTextLength

\* !extractedText || typeof extractedText !== 'string' || extractedText.trim().length < 20
InsufficientText(t) ==
  \/ t = NoContent
  \/ OcrTexts[t] = << >>
  \/ Len(Trim(OcrTexts[t])) < MinTextLength

\* ------------------------------------------------------- structured menus
DishName(i) == <<"d", ToString(i)>>

Dish(i) == [name |-> DishName(i)]

Category(nm, from, to) ==
  [name |-> nm, has_dishes |-> TRUE, dishes |-> [k \in 1..(to - from + 1) |-> Dish(from + k - 1)]]

\* A category object without a `dishes` key.
CategoryNoDishes(nm) == [name |-> nm, has_dishes |-> FALSE, dishes |-> <<>>]

\* 12 dishes across 3 categories.
Menu12 ==
  [restaurant |-> [name |-> <<"S">>, location |-> <<"T">>],
   categories |-> << Category(<<"A">>, 1, 5), Category(<<"B">>, 6, 9), Category(<<"C">>, 10, 12) >>]

\* The same menu with surrounding whitespace in a category name.
Menu12ws ==
  [restaurant |-> [name |-> <<"S">>, location |-> <<"T">>],
   categories |-> << Category(<<" ", "A", " ">>, 1, 5), Category(<<"B">>, 6, 9), Category(<<"C">>, 10, 12) >>]

\* A dish object whose name is the empty string.
UnnamedDish == [name |-> << >>]

\* 21 dishes: three insert batches (10, 10, 1).  The last dish has an empty name.
Menu21 ==
  [restaurant |-> [name |-> <<"S">>, location |-> <<"T">>],
   categories |-> << Category(<<"A">>, 1, 11),
                     [Category(<<"B">>, 12, 20) EXCEPT !.dishes = Append(@, UnnamedDish)] >>]

\* One dish, and one category that has no dishes key.
Menu1 ==
  [restaurant |-> [name |-> <<"S">>, location |-> <<"T">>],
   categories |-> << CategoryNoDishes(<<"E">>), Category(<<"A">>, 1, 1) >>]

MenuSamples == << Menu12, Menu12ws, Menu21, Menu1 >>

MenuIds == 1..Len(MenuSamples)

\* The calls of saveToSupabase that are tried: (userId, imageHash, menu).
Requests ==
  { << "userA", "imgX", 1 >>,    \* a 12-dish menu
    << "userB", "imgY", 2 >>,    \* another photo of the same content
    << "userB", "imgX", 3 >>,    \* the first photo, scanned by another user
    << "userA", "imgY", 4 >> }   \* a new photo by the first user

\* ------------------------------------------------------------ HashComputer
NormalizeDish(d) == [d EXCEPT !.name = Trim(@)]

NormalizeCategory(c) ==
  [c EXCEPT !.name = Trim(@),
            !.dishes = [k \in 1..Len(c.dishes) |-> NormalizeDish(c.dishes[k])]]

\* normalizeTextValues: every `name` is trimmed, arrays keep their order.
normalizeTextValues(m) ==
  [restaurant |-> [m.restaurant EXCEPT !.name = Trim(@)],
   categories |-> [k \in 1..Len(m.categories) |-> NormalizeCategory(m.categories[k])]]

\* The digest of the stable serialization.  SHA-256 is modelled as an
\* injective labelling of the serializations of the sample menus: the label
\* is the least sample index with the same normalized value.
calculateContentHash(k) ==
  CHOOSE j \in MenuIds :
    /\ normalizeTextValues(MenuSamples[j]) = normalizeTextValues(MenuSamples[k])
    /\ \A l \in MenuIds :
         normalizeTextValues(MenuSamples[l]) = normalizeTextValues(MenuSamples[k]) => j <= l

\* ------------------------------------------- HashComputer on JSON values
\* A JSON value is a string, an array, or an object whose members are kept in
\* insertion order.
Str(s) == [t |-> "str", v |-> s]

Arr(xs) == [t |-> "arr", v |-> xs]

Obj(ms) == [t |-> "obj", v |-> ms]

Member(k, val) == [k |-> k, v |-> val]

\* replace(/\s+/g, ' ')
RECURSIVE CollapseWhitespace(_)
CollapseWhitespace(s) ==
  IF s = << >> THEN << >>
  ELSE IF Head(s) \in Whitespace
         THEN <<" ">> \o CollapseWhitespace(TrimLeft(Tail(s)))
         ELSE <<Head(s)>> \o CollapseWhitespace(Tail(s))

\* Descriptions are trimmed only.
NormalizeStringTrimOnly(key, s) ==
  IF key \in {"name", "category", "description"} THEN Trim(s) ELSE s

\* The string cases of normalizeTextValues, by the key the string is under.
NormalizeString(key, s) ==
  IF key \in {"name", "category"} THEN Trim(s)
  ELSE IF key = "description" THEN CollapseWhitespace(Trim(s))
  ELSE s

\* normalizeTextValues on a JSON value: the entries of an object or of an
\* array are visited; strings are normalized by their key, objects and array
\* items are visited in turn.
RECURSIVE normalizeTextValuesJson(_)
normalizeTextValuesJson(obj) ==
  IF obj.t = "str" THEN obj
  ELSE LET Entry(key, value) ==
             IF value.t = "str" THEN Str(NormalizeString(key, value.v))
             ELSE normalizeTextValuesJson(value)
       IN  IF obj.t = "obj"
             THEN Obj([i \in DOMAIN obj.v |-> Member(obj.v[i].k, Entry(obj.v[i].k, obj.v[i].v))])
             ELSE Arr([i \in DOMAIN obj.v |-> Entry("index", obj.v[i])])

\* The keys that occur, in the order Array.prototype.sort gives them.
KeyOrder ==
  << "categories", "description", "dishes", "location", "name", "price", "restaurant" >>

KeyRank(k) == CHOOSE i \in DOMAIN KeyOrder : KeyOrder[i] = k

\* fast-json-stable-stringify: the members of every object are written in
\* key order, the items of an array in array order.  The text written is
\* modelled by the value so ordered.
RECURSIVE stableStringify(_)
stableStringify(v) ==
  IF v.t = "str" THEN v
  ELSE IF v.t = "arr" THEN Arr([i \in DOMAIN v.v |-> stableStringify(v.v[i])])
  ELSE Obj(SortSeq([i \in DOMAIN v.v |-> Member(v.v[i].k, stableStringify(v.v[i].v))],
                   LAMBDA x, y : KeyRank(x.k) < KeyRank(y.k)))

\* The string that is hashed.
HashInput(v) == stableStringify(normalizeTextValuesJson(v))

\* ------------------------------------------------ values that are hashed
DishJ(nm, desc) ==
  Obj(<< Member("name", Str(nm)), Member("description", Str(desc)),
         Member("price", Str(<<"9">>)) >>)

CatJ(nm, dishes) == Obj(<< Member("name", Str(nm)), Member("dishes", Arr(dishes)) >>)

MenuJ(cats) ==
  Obj(<< Member("restaurant", Obj(<< Member("name", Str(<<"S">>)),
                                     Member("location", Str(<<"T">>)) >>)),
         Member("categories", Arr(cats)) >>)

\* The same value with the members of every object inserted in reverse order.
RECURSIVE ReverseKeys(_)
ReverseKeys(v) ==
  IF v.t = "str" THEN v
  ELSE IF v.t = "arr" THEN Arr([i \in DOMAIN v.v |-> ReverseKeys(v.v[i])])
  ELSE Obj([i \in DOMAIN v.v |->
              Member(v.v[Len(v.v) + 1 - i].k, ReverseKeys(v.v[Len(v.v) + 1 - i].v))])

D1 == DishJ(<<"d", "1">>, <<"x", " ", "y">>)

D2 == DishJ(<<"d", "2">>, <<"z">>)

D3 == DishJ(<<"d", "3">>, <<"w">>)

BaseMenu == MenuJ(<< CatJ(<<"A">>, << D1, D2 >>), CatJ(<<"B">>, << D3 >>) >>)

\* The values hashed, each with the content it stands for: two values have
\* the same `content` exactly when they differ only in key insertion order,
\* in whitespace around or repeated inside a description, or in whitespace
\* around a name.
HashSamples ==
  << [content |-> 1, value |-> BaseMenu],
     [content |-> 1, value |-> ReverseKeys(BaseMenu)],
     [content |-> 1, value |->
        MenuJ(<< CatJ(<<"A">>, << DishJ(<<"d", "1">>, <<" ", "x", " ", "\n", " ", "y", "\t">>), D2 >>),
                 CatJ(<<"B">>, << D3 >>) >>)],
     [content |-> 1, value |->
        MenuJ(<< CatJ(<<" ", "A", " ">>, << DishJ(<<"\t", "d", "1">>, <<"x", " ", "y">>), D2 >>),
                 CatJ(<<"B", " ">>, << D3 >>) >>)],
     [content |-> 2, value |-> MenuJ(<< CatJ(<<"B">>, << D3 >>), CatJ(<<"A">>, << D1, D2 >>) >>)],
     [content |-> 3, value |-> MenuJ(<< CatJ(<<"A">>, << D2, D1 >>), CatJ(<<"B">>, << D3 >>) >>)],
     [content |-> 4, value |->
        MenuJ(<< CatJ(<<"A">>, << DishJ(<<"d", "1">>, <<"x", " ", "z">>), D2 >>),
                 CatJ(<<"B">>, << D3 >>) >>)],
     [content |-> 5, value |->
        MenuJ(<< CatJ(<<"A">>, << DishJ(<<"d", "9">>, <<"x", " ", "y">>), D2 >>),
                 CatJ(<<"B">>, << D3 >>) >>)],
     [content |-> 6, value |->
        MenuJ(<< CatJ(<<"A">>, << DishJ(<<"d", "1">>, <<"X", " ", "y">>), D2 >>),
                 CatJ(<<"B">>, << D3 >>) >>)] >>

HashIds == 1..Len(HashSamples)

\* calculateContentHash on a JSON value.  SHA-256 is modelled as an injective
\* labelling of the strings hashed: the label is the least sample index whose
\* hash input is the same string.
calculateContentHashJson(k) ==
  CHOOSE j \in HashIds :
    /\ HashInput(HashSamples[j].value) = HashInput(HashSamples[k].value)
    /\ \A l \in HashIds :
         HashInput(HashSamples[l].value) = HashInput(HashSamples[k].value) => j <= l

\* ------------------------------------------------------------------ state
VARIABLES
  user_profile,      \* set of user ids
  canonical_menus,   \* set of rows [id, content_hash, dish_count, first_scan_id]
  menu_scan,         \* set of rows [id, user_id, image_hash, canonical_menu_id, scanned_at]
  menu_dishes,       \* set of rows [id, canonical_menu_id, dish_name, category]
  proc,              \* per pipeline execution: position and local variables
  uuidCount,         \* number of uuidv4() values generated so far
  runs,             \* number of saveToSupabase calls started
  failures,          \* number of transient database failures so far
  digest             \* HashComputer: the two values hashed and their digests

vars == << user_profile, canonical_menus, menu_scan, menu_dishes, proc, uuidCount, runs,
          failures, digest >>

store == << user_profile, canonical_menus, menu_scan, menu_dishes >>

\* null ids and the absent image hash
Null == 0
NoHash == "none"

NullScan == [id |-> Null]
NullMenu == [id |-> Null, dish_count |-> 0]
NoResult == [method |-> "none"]

\* No value has been hashed.
NoDigest == [a |-> 0, b |-> 0, da |-> Null, db |-> Null]

IdleProc ==
  [pc |-> "idle", userId |-> "userA", imageHash |-> "imgX", menu |-> 1, contentHash |-> 1,
   existingScan |-> NullScan, existingCanonicalMenu |-> NullMenu,
   scanId |-> Null, canonicalId |-> Null, i |-> 0, insertedDishCount |-> 0, dishErrors |-> 0,
   result |-> NoResult, error |-> "none",
   ocr_i |-> 0, calls |-> <<>>, lastResponse |-> [kind |-> "none", text |-> NoContent],
   ocrResult |-> [success |-> FALSE, text |-> NoContent, model |-> "none"],
   pending |-> {}, timeoutId |-> "none", structureCalls |-> 0, structOutcome |-> "none",
   writes |-> <<>>, priorScans |-> {}, storeAtStart |-> << {}, {}, {}, {} >>]

Init ==
  /\ user_profile = {}
  /\ canonical_menus = {}
  /\ menu_scan = {}
  /\ menu_dishes = {}
  /\ proc = [p \in Procs |-> IdleProc]
  /\ uuidCount = 0
  /\ runs = 0
  /\ failures = 0
  /\ digest = NoDigest

\* A database call either answers or fails for a transient reason.
DbOutcomes == {"ok"} \cup (IF failures < MaxFailures THEN {"error"} ELSE {})

CountFailure(o) == failures' = IF o = "error" THEN failures + 1 ELSE failures

Set(p, r) == proc' = [proc EXCEPT ![p] = r]

Throw(p, msg) == Set(p, [proc[p] EXCEPT !.pc = "failed", !.error = msg])

\* ------------------------------------------------------- dish flattening
\* The reduce counts the categories instead of their dishes.
CountCategories(cats) == Len(cats)

\* structuredData.categories.reduce((sum, c) => sum + (c.dishes ? c.dishes.length : 0), 0)
RECURSIVE CountDishes(_)
CountDishes(cats) ==
  IF cats = <<>> THEN 0
  ELSE (IF Head(cats).has_dishes THEN Len(Head(cats).dishes) ELSE 0) + CountDishes(Tail(cats))

\* allDishes: every dish of every category, in order, tagged with its category name.
RECURSIVE allDishes(_)
allDishes(cats) ==
  IF cats = <<>> THEN <<>>
  ELSE (IF Head(cats).has_dishes
          THEN [k \in 1..Len(Head(cats).dishes) |->
                  [name |-> Head(cats).dishes[k].name, category |-> Head(cats).name]]
          ELSE <<>>)
       \o allDishes(Tail(cats))

Min(a, b) == IF a < b THEN a ELSE b

\* The slice ends one element early.
BatchSliceShort(all, i) == SubSeq(all, i + 1, Min(i + BATCH_SIZE - 1, Len(all)))

\* The slice ends one element late, so consecutive batches overlap.
BatchSliceLong(all, i) == SubSeq(all, i + 1, Min(i + BATCH_SIZE + 1, Len(all)))

\* allDishes.slice(i, i + BATCH_SIZE), i counted from 0.
BatchSlice(all, i) == SubSeq(all, i + 1, Min(i + BATCH_SIZE, Len(all)))

\* ------------------------------------------------------------- DedupStore
\* checkForExistingUserScan: most recent scan of this user with this image
\* hash; any query error is logged and answered with null.
checkForExistingUserScan(userId, imageHash, o) ==
  IF imageHash = NoHash THEN NullScan
  ELSE LET rows == {r \in menu_scan : r.user_id = userId /\ r.image_hash = imageHash}
       IN  IF o = "error" \/ rows = {} THEN NullScan
           ELSE [id |-> (CHOOSE r \in rows : \A r2 \in rows : r2.scanned_at <= r.scanned_at).id]

\* checkForExistingCanonicalMenu: the rows with this content hash (limit 1
\* returns one of them); any query error is answered with null.
checkForExistingCanonicalMenu(contentHash, o) ==
  LET rows == {r \in canonical_menus : r.content_hash = contentHash}
  IN  IF o = "error" \/ rows = {} THEN {NullMenu}
      ELSE {[id |-> r.id, dish_count |-> r.dish_count] : r \in rows}

\* ------------------------------------------------------ schema constraints
\* No uniqueness constraint on content_hash.
NoContentHashConflict(contentHash) == FALSE

\* canonical_menus(content_hash UNIQUE)
ContentHashConflict(contentHash) == \E r \in canonical_menus : r.content_hash = contentHash

\* user_profile(id) is the primary key
UserIdConflict(userId) == userId \in user_profile

\* ------------------------------------------------------------ saveToSupabase
Finished(p) == proc[p].pc \in {"idle", "done", "failed"}

\* saveToSupabase(structuredResult, userId) is entered: the first query is issued.
SaveEntry(r, u, h, m) ==
  [r EXCEPT !.pc = "checkUserScan", !.userId = u, !.imageHash = h,
            !.menu = m, !.contentHash = calculateContentHash(m),
            !.priorScans = {x.id : x \in {y \in menu_scan :
                                         y.user_id = u /\ y.image_hash = h}}]

\* A caller invokes saveToSupabase directly.
StartSave(p, u, h, m) ==
  /\ Finished(p)
  /\ runs < MaxRuns
  /\ runs' = runs + 1
  /\ Set(p, SaveEntry(IdleProc, u, h, m))
  /\ UNCHANGED << store, uuidCount, failures, digest >>

\* Step 2 with a lookup error that fails the save.
CheckUserScanThrows(p) ==
  /\ proc[p].pc = "checkUserScan"
  /\ \E o \in DbOutcomes :
       LET existingScan == checkForExistingUserScan(proc[p].userId, proc[p].imageHash, o)
       IN  /\ CountFailure(o)
           /\ IF o = "error" THEN Throw(p, "User scan lookup failed")
              ELSE IF existingScan.id # Null
                THEN Set(p, [proc[p] EXCEPT !.existingScan = existingScan, !.pc = "done",
                               !.result = [scanId |-> existingScan.id,
                                           method |-> "duplicate_image_hash",
                                           existingScan |-> TRUE]])
                ELSE Set(p, [proc[p] EXCEPT !.existingScan = existingScan,
                                            !.pc = "ensureUserSelect"])
  /\ UNCHANGED << store, uuidCount, runs, digest >>

\* Step 2: duplicate check by image hash; a hit returns at once.
CheckUserScan(p) ==
  /\ proc[p].pc = "checkUserScan"
  /\ \E o \in DbOutcomes :
       LET existingScan == checkForExistingUserScan(proc[p].userId, proc[p].imageHash, o)
       IN  /\ CountFailure(o)
           /\ IF existingScan.id # Null
                THEN Set(p, [proc[p] EXCEPT !.existingScan = existingScan, !.pc = "done",
                               !.result = [scanId |-> existingScan.id,
                                           method |-> "duplicate_image_hash",
                                           existingScan |-> TRUE]])
                ELSE Set(p, [proc[p] EXCEPT !.existingScan = existingScan,
                                            !.pc = "ensureUserSelect"])
  /\ UNCHANGED << store, uuidCount, runs, digest >>

\* ensureUserExists with a select whose error is taken for "no rows".
EnsureUserSelectIgnoresError(p) ==
  /\ proc[p].pc = "ensureUserSelect"
  /\ \E o \in DbOutcomes :
       /\ CountFailure(o)
       /\ IF o # "error" /\ proc[p].userId \in user_profile
            THEN Set(p, [proc[p] EXCEPT !.pc = "checkCanonical"])
            ELSE Set(p, [proc[p] EXCEPT !.pc = "ensureUserInsert"])
  /\ UNCHANGED << store, uuidCount, runs, digest >>

\* ensureUserExists, the select: "no rows" (PGRST116) is tolerated, any
\* other error is thrown.
EnsureUserSelect(p) ==
  /\ proc[p].pc = "ensureUserSelect"
  /\ \E o \in DbOutcomes :
       /\ CountFailure(o)
       /\ IF o = "error" THEN Throw(p, "User check failed")
          ELSE IF proc[p].userId \in user_profile
                 THEN Set(p, [proc[p] EXCEPT !.pc = "checkCanonical"])
                 ELSE Set(p, [proc[p] EXCEPT !.pc = "ensureUserInsert"])
  /\ UNCHANGED << store, uuidCount, runs, digest >>

\* ensureUserExists, the insert of the missing profile.
EnsureUserInsert(p) ==
  /\ proc[p].pc = "ensureUserInsert"
  /\ \E o \in DbOutcomes :
       /\ CountFailure(o)
       /\ IF o = "error" \/ UserIdConflict(proc[p].userId)
            THEN /\ Throw(p, IF o = "error" THEN "User creation failed: network error"
                                           ELSE "User creation failed: duplicate key")
                 /\ UNCHANGED user_profile
            ELSE /\ user_profile' = user_profile \cup {proc[p].userId}
                 /\ Set(p, [proc[p] EXCEPT !.pc = "checkCanonical",
                                           !.writes = Append(@, "user_profile")])
  /\ UNCHANGED << canonical_menus, menu_scan, menu_dishes, uuidCount, runs, digest >>

\* Steps 4 and 5: canonical lookup by content hash, then scanId = uuidv4().
CheckCanonical(p) ==
  /\ proc[p].pc = "checkCanonical"
  /\ \E o \in DbOutcomes :
       /\ CountFailure(o)
       /\ \E existingCanonicalMenu \in checkForExistingCanonicalMenu(proc[p].contentHash, o) :
            Set(p, [proc[p] EXCEPT !.existingCanonicalMenu = existingCanonicalMenu,
                                   !.scanId = uuidCount + 1,
                                   !.pc = IF existingCanonicalMenu.id # Null
                                            THEN "reuseInsertScan" ELSE "insertCanonical"])
  /\ uuidCount' = uuidCount + 1
  /\ UNCHANGED << store, runs, digest >>

ScanRow(p, canonicalId) ==
  [id |-> proc[p].scanId, user_id |-> proc[p].userId, image_hash |-> proc[p].imageHash,
   canonical_menu_id |-> canonicalId, scanned_at |-> Cardinality(menu_scan) + 1]

\* Scenario A that also points the canonical menu's first_scan_id at the new scan.
ReuseInsertScanRelinks(p) ==
  /\ proc[p].pc = "reuseInsertScan"
  /\ menu_scan' = menu_scan \cup {ScanRow(p, proc[p].existingCanonicalMenu.id)}
  /\ canonical_menus' =
       {IF r.id = proc[p].existingCanonicalMenu.id
          THEN [r EXCEPT !.first_scan_id = proc[p].scanId] ELSE r : r \in canonical_menus}
  /\ Set(p, [proc[p] EXCEPT
        !.pc = "done",
        !.writes = Append(@, "menu_scan"),
        !.result = [scanId |-> proc[p].scanId,
                    method |-> "canonical_menu_reuse",
                    canonicalId |-> proc[p].existingCanonicalMenu.id,
                    dishCount |-> proc[p].existingCanonicalMenu.dish_count,
                    newDishes |-> FALSE]])
  /\ UNCHANGED << user_profile, menu_dishes, uuidCount, runs, failures, digest >>

\* Scenario A: only a menu_scan row, linked to the existing canonical menu.
ReuseInsertScan(p) ==
  /\ proc[p].pc = "reuseInsertScan"
  /\ \E o \in DbOutcomes :
       /\ CountFailure(o)
       /\ IF o = "error"
            THEN /\ Throw(p, "Scan insert failed")
                 /\ UNCHANGED menu_scan
            ELSE /\ menu_scan' = menu_scan \cup {ScanRow(p, proc[p].existingCanonicalMenu.id)}
                 /\ Set(p, [proc[p] EXCEPT
                       !.pc = "done",
                       !.writes = Append(@, "menu_scan"),
                       !.result = [scanId |-> proc[p].scanId,
                                   method |-> "canonical_menu_reuse",
                                   canonicalId |-> proc[p].existingCanonicalMenu.id,
                                   dishCount |-> proc[p].existingCanonicalMenu.dish_count,
                                   newDishes |-> FALSE]])
  /\ UNCHANGED << user_profile, canonical_menus, menu_dishes, uuidCount, runs, digest >>

\* Scenario B that goes from the canonical_menus insert straight to the dishes.
InsertCanonicalThenDishes(p) ==
  /\ proc[p].pc = "insertCanonical"
  /\ ~ContentHashConflict(proc[p].contentHash)
  /\ LET canonicalId == Cardinality(canonical_menus) + 1
     IN  /\ canonical_menus' = canonical_menus \cup
              {[id |-> canonicalId, content_hash |-> proc[p].contentHash,
                dish_count |-> CountDishes(MenuSamples[proc[p].menu].categories),
                first_scan_id |-> Null]}
         /\ Set(p, [proc[p] EXCEPT !.pc = "insertDishes",
                                   !.canonicalId = canonicalId,
                                   !.writes = Append(@, "canonical_menus")])
  /\ UNCHANGED << user_profile, menu_scan, menu_dishes, uuidCount, runs, failures, digest >>

\* Scenario B, step 1: insert the canonical_menus row.
InsertCanonical(p) ==
  /\ proc[p].pc = "insertCanonical"
  /\ \E o \in DbOutcomes :
       /\ CountFailure(o)
       /\ IF o = "error" \/ ContentHashConflict(proc[p].contentHash)
            THEN /\ Throw(p, IF o = "error" THEN "Canonical menu insert failed: network error"
                                           ELSE "Canonical menu insert failed: duplicate key")
                 /\ UNCHANGED canonical_menus
            ELSE LET canonicalId == Cardinality(canonical_menus) + 1
                 IN  /\ canonical_menus' = canonical_menus \cup
                          {[id |-> canonicalId, content_hash |-> proc[p].contentHash,
                            dish_count |-> CountDishes(MenuSamples[proc[p].menu].categories),
                            first_scan_id |-> Null]}
                     /\ Set(p, [proc[p] EXCEPT !.pc = "insertScan",
                                               !.canonicalId = canonicalId,
                                               !.writes = Append(@, "canonical_menus")])
  /\ UNCHANGED << user_profile, menu_scan, menu_dishes, uuidCount, runs, digest >>

\* Scenario B, step 2, linking the scan to the (absent) looked-up menu.
InsertScanUnlinked(p) ==
  /\ proc[p].pc = "insertScan"
  /\ menu_scan' = menu_scan \cup {ScanRow(p, proc[p].existingCanonicalMenu.id)}
  /\ Set(p, [proc[p] EXCEPT !.pc = "updateFirstScan", !.writes = Append(@, "menu_scan")])
  /\ UNCHANGED << user_profile, canonical_menus, menu_dishes, uuidCount, runs, failures, digest >>

\* Scenario B, step 2, going on after a failed insert.
InsertScanIgnoresError(p) ==
  /\ proc[p].pc = "insertScan"
  /\ \E o \in DbOutcomes :
       /\ CountFailure(o)
       /\ IF o = "error"
            THEN /\ Set(p, [proc[p] EXCEPT !.pc = "updateFirstScan"])
                 /\ UNCHANGED menu_scan
            ELSE /\ menu_scan' = menu_scan \cup {ScanRow(p, proc[p].canonicalId)}
                 /\ Set(p, [proc[p] EXCEPT !.pc = "updateFirstScan",
                                           !.writes = Append(@, "menu_scan")])
  /\ UNCHANGED << user_profile, canonical_menus, menu_dishes, uuidCount, runs, digest >>

\* Scenario B, step 2: insert the menu_scan row.
InsertScan(p) ==
  /\ proc[p].pc = "insertScan"
  /\ \E o \in DbOutcomes :
       /\ CountFailure(o)
       /\ IF o = "error"
            THEN /\ Throw(p, "Scan insert failed")
                 /\ UNCHANGED menu_scan
            ELSE /\ menu_scan' = menu_scan \cup {ScanRow(p, proc[p].canonicalId)}
                 /\ Set(p, [proc[p] EXCEPT !.pc = "updateFirstScan",
                                           !.writes = Append(@, "menu_scan")])
  /\ UNCHANGED << user_profile, canonical_menus, menu_dishes, uuidCount, runs, digest >>

\* The return of scenario B once the batch loop has ended.
NewMenuResult(p, inserted) ==
  [scanId |-> proc[p].scanId, method |-> "new_canonical_menu",
   canonicalId |-> proc[p].canonicalId, dishCount |-> inserted, newDishes |-> TRUE]

\* The batch loop at index i: still running, or ended with the return.
LoopState(p, r) ==
  IF r.i < Len(allDishes(MenuSamples[r.menu].categories))
    THEN [r EXCEPT !.pc = "insertDishes"]
    ELSE [r EXCEPT !.pc = "done", !.result = NewMenuResult(p, r.insertedDishCount)]

\* Scenario B, step 3, with the update error thrown like the insert errors.
UpdateFirstScanThrows(p) ==
  /\ proc[p].pc = "updateFirstScan"
  /\ \E o \in DbOutcomes :
       /\ CountFailure(o)
       /\ IF o = "error"
            THEN /\ UNCHANGED canonical_menus
                 /\ Throw(p, "first_scan_id update failed")
            ELSE /\ canonical_menus' =
                      {IF r.id = proc[p].canonicalId
                         THEN [r EXCEPT !.first_scan_id = proc[p].scanId] ELSE r
                       : r \in canonical_menus}
                 /\ Set(p, LoopState(p, [proc[p] EXCEPT !.i = 0, !.insertedDishCount = 0,
                                                       !.writes = Append(@, "first_scan_id")]))
  /\ UNCHANGED << user_profile, menu_scan, menu_dishes, uuidCount, runs, digest >>

\* Scenario B, step 3, with an update that also rewrites dish_count.
UpdateFirstScanRewritesCount(p) ==
  /\ proc[p].pc = "updateFirstScan"
  /\ \E o \in DbOutcomes :
       /\ CountFailure(o)
       /\ IF o = "error"
            THEN /\ UNCHANGED canonical_menus
                 /\ Set(p, LoopState(p, [proc[p] EXCEPT !.i = 0, !.insertedDishCount = 0]))
            ELSE /\ canonical_menus' =
                      {IF r.id = proc[p].canonicalId
                         THEN [r EXCEPT !.first_scan_id = proc[p].scanId, !.dish_count = 0]
                         ELSE r
                       : r \in canonical_menus}
                 /\ Set(p, LoopState(p, [proc[p] EXCEPT !.i = 0, !.insertedDishCount = 0,
                                                       !.writes = Append(@, "first_scan_id")]))
  /\ UNCHANGED << user_profile, menu_scan, menu_dishes, uuidCount, runs, digest >>

\* Scenario B, step 3, with an update that is not restricted to the new row.
UpdateFirstScanAllRows(p) ==
  /\ proc[p].pc = "updateFirstScan"
  /\ \E o \in DbOutcomes :
       /\ CountFailure(o)
       /\ IF o = "error"
            THEN /\ UNCHANGED canonical_menus
                 /\ Set(p, LoopState(p, [proc[p] EXCEPT !.i = 0, !.insertedDishCount = 0]))
            ELSE /\ canonical_menus' =
                      {[r EXCEPT !.first_scan_id = proc[p].scanId] : r \in canonical_menus}
                 /\ Set(p, LoopState(p, [proc[p] EXCEPT !.i = 0, !.insertedDishCount = 0,
                                                       !.writes = Append(@, "first_scan_id")]))
  /\ UNCHANGED << user_profile, menu_scan, menu_dishes, uuidCount, runs, digest >>

\* Scenario B, step 3: best-effort update of first_scan_id.
UpdateFirstScan(p) ==
  /\ proc[p].pc = "updateFirstScan"
  /\ \E o \in DbOutcomes :
       /\ CountFailure(o)
       /\ IF o = "error"
            THEN /\ UNCHANGED canonical_menus
                 /\ Set(p, LoopState(p, [proc[p] EXCEPT !.i = 0, !.insertedDishCount = 0]))
            ELSE /\ canonical_menus' =
                      {IF r.id = proc[p].canonicalId
                         THEN [r EXCEPT !.first_scan_id = proc[p].scanId] ELSE r
                       : r \in canonical_menus}
                 /\ Set(p, LoopState(p, [proc[p] EXCEPT !.i = 0, !.insertedDishCount = 0,
                                                       !.writes = Append(@, "first_scan_id")]))
  /\ UNCHANGED << user_profile, menu_scan, menu_dishes, uuidCount, runs, digest >>

\* The batch loop that ends at the first failed batch.
InsertDishBatchStopsOnError(p) ==
  /\ proc[p].pc = "insertDishes"
  /\ \E o \in DbOutcomes :
       LET batch == BatchSlice(allDishes(MenuSamples[proc[p].menu].categories), proc[p].i)
       IN  /\ CountFailure(o)
           /\ IF o = "error"
                THEN /\ UNCHANGED menu_dishes
                     /\ Set(p, [proc[p] EXCEPT !.pc = "done", !.dishErrors = @ + 1,
                                   !.result = NewMenuResult(p, proc[p].insertedDishCount)])
                ELSE /\ menu_dishes' = menu_dishes \cup
                          {[id |-> Cardinality(menu_dishes) + k,
                            canonical_menu_id |-> proc[p].canonicalId,
                            dish_name |-> batch[k].name,
                            category |-> batch[k].category] : k \in 1..Len(batch)}
                     /\ Set(p, LoopState(p, [proc[p] EXCEPT
                                               !.i = @ + BATCH_SIZE,
                                               !.insertedDishCount = @ + Len(batch),
                                               !.writes = Append(@, "menu_dishes")]))
  /\ UNCHANGED << user_profile, canonical_menus, menu_scan, uuidCount, runs, digest >>

\* Scenario B, step 4: one batch of the dish rows.
InsertDishBatch(p) ==
  /\ proc[p].pc = "insertDishes"
  /\ \E o \in DbOutcomes :
       LET batch == BatchSlice(allDishes(MenuSamples[proc[p].menu].categories), proc[p].i)
       IN  /\ CountFailure(o)
           /\ IF o = "error"
                THEN /\ UNCHANGED menu_dishes
                     /\ Set(p, LoopState(p, [proc[p] EXCEPT !.i = @ + BATCH_SIZE,
                                                           !.dishErrors = @ + 1]))
                ELSE /\ menu_dishes' = menu_dishes \cup
                          {[id |-> Cardinality(menu_dishes) + k,
                            canonical_menu_id |-> proc[p].canonicalId,
                            dish_name |-> batch[k].name,
                            category |-> batch[k].category] : k \in 1..Len(batch)}
                     /\ Set(p, LoopState(p, [proc[p] EXCEPT
                                               !.i = @ + BATCH_SIZE,
                                               !.insertedDishCount = @ + Len(batch),
                                               !.writes = Append(@, "menu_dishes")]))
  /\ UNCHANGED << user_profile, canonical_menus, menu_scan, uuidCount, runs, digest >>

\* ------------------------------------------------- runOcrWithFallbackChain
\* What one provider attempt ends with.
OcrResponses ==
  {[kind |-> k, text |-> NoContent] : k \in {"timeout", "exception", "not_ok"}}
    \cup {[kind |-> "ok", text |-> t] : t \in 0..Len(OcrTexts)}

\* The error thrown once every model of the chain has failed: an Error built
\* from a message alone. The per-model failures are logged, not collected.
OcrExhaustedError == [message |-> "OCR failed"]

\* The loop ends with a return instead of the throw.
CascadeAdvanceReturns(r) ==
  IF r.ocr_i + 1 < Len(OCR_MODEL_CHAIN)
    THEN [r EXCEPT !.ocr_i = @ + 1, !.calls = Append(@, r.ocr_i + 2),
                   !.pending = @ \cup {r.ocr_i + 2},
                   !.timeoutId = "armed"]
    ELSE [r EXCEPT !.ocr_i = @ + 1, !.pc = "ocrDone"]

\* The loop asks the model that has just failed once more before moving on.
CascadeAdvanceRetries(r) ==
  IF r.ocr_i + 1 < Len(OCR_MODEL_CHAIN)
    THEN [r EXCEPT !.ocr_i = @ + 1, !.calls = Append(@, r.ocr_i + 1),
                   !.pending = @ \cup {r.ocr_i + 1},
                   !.timeoutId = "armed"]
    ELSE [r EXCEPT !.ocr_i = @ + 1, !.pc = "failed",
                   !.error = OcrExhaustedError.message]

\* The attempt at index i failed: the loop goes on to the next model and
\* issues its request, or ends and throws.
CascadeAdvance(r) ==
  IF r.ocr_i + 1 < Len(OCR_MODEL_CHAIN)
    THEN [r EXCEPT !.ocr_i = @ + 1, !.calls = Append(@, r.ocr_i + 2),
                   !.pending = @ \cup {r.ocr_i + 2},
                   !.timeoutId = "armed"]
    ELSE [r EXCEPT !.ocr_i = @ + 1, !.pc = "failed",
                   !.error = OcrExhaustedError.message]

\* The body of the loop after the fetch of model i has settled.
runOcrWithFallbackChain(r, resp) ==
  LET settled == [r EXCEPT !.lastResponse = resp, !.pending = @ \ {r.ocr_i + 1},
                           !.timeoutId = "none"]
  IN  IF resp.kind = "ok" /\ ~InsufficientText(resp.text)
        THEN [settled EXCEPT !.pc = "ocrDone",
                             !.ocrResult = [success |-> TRUE, text |-> resp.text,
                                            model |-> OCR_MODEL_CHAIN[r.ocr_i + 1]]]
        ELSE CascadeAdvance(settled)

\* The pipeline is started on a photographed menu, one run at a time: the
\* image is hashed and the request to the first model is issued.
StartPipeline(p, u, h, m) ==
  /\ \A q \in Procs : Finished(q)
  /\ runs < MaxRuns
  /\ runs' = runs + 1
  /\ proc' = [q \in Procs |->
                IF q = p
                  THEN [IdleProc EXCEPT !.pc = "ocrAwait", !.userId = u, !.imageHash = h,
                                        !.menu = m, !.ocr_i = 0, !.calls = <<1>>,
                                        !.pending = {1}, !.timeoutId = "armed",
                                        !.storeAtStart = store]
                  ELSE IdleProc]
  /\ UNCHANGED << store, uuidCount, failures, digest >>

\* The fetch resolves with the status line and the headers: the timer is
\* cleared, the body is still to be read.
OcrHeaders(p) ==
  /\ proc[p].pc = "ocrAwait"
  /\ proc[p].timeoutId = "armed"
  /\ Set(p, [proc[p] EXCEPT !.timeoutId = "cleared"])
  /\ UNCHANGED << store, uuidCount, runs, failures, digest >>

\* The timer fires after 45 seconds: the fetch is aborted and rejects with
\* an AbortError.
OcrTimeout(p) ==
  /\ proc[p].pc = "ocrAwait"
  /\ proc[p].timeoutId = "armed"
  /\ Set(p, runOcrWithFallbackChain(proc[p], [kind |-> "timeout", text |-> NoContent]))
  /\ UNCHANGED << store, uuidCount, runs, failures, digest >>

\* The attempt settles otherwise: the fetch or the reading of the body throws,
\* or the body of a response has been read.
OcrResponse(p) ==
  /\ proc[p].pc = "ocrAwait"
  /\ \E resp \in OcrResponses :
       /\ resp.kind # "timeout"
       /\ resp.kind \in {"ok", "not_ok"} => proc[p].timeoutId = "cleared"
       /\ Set(p, runOcrWithFallbackChain(proc[p], resp))
  /\ UNCHANGED << store, uuidCount, runs, failures, digest >>

\* ------------------------------------------------------- structureOcrData
StructureOutcomes == {"exception", "not_ok", "empty", "invalid_json", "no_categories", "ok"}

\* The request to the structuring model is issued.
StructureCall(p) ==
  /\ proc[p].pc = "ocrDone"
  /\ Set(p, [proc[p] EXCEPT !.pc = "structAwait", !.structureCalls = @ + 1])
  /\ UNCHANGED << store, uuidCount, runs, failures, digest >>

\* The success log inside the try reads categories[0].name and every
\* category's dishes.length: it throws a TypeError when there is no category
\* or a category has no `dishes` key.
SummaryThrows(m) ==
  \/ m.categories = << >>
  \/ \E k \in 1..Len(m.categories) : ~m.categories[k].has_dishes

\* What structureOcrData ends with for a response.
StructureError(o, m) ==
  IF o \in {"exception", "not_ok", "empty"} THEN "Failed to structure OCR data"
  ELSE IF o \in {"invalid_json", "no_categories"} \/ SummaryThrows(MenuSamples[m])
         THEN "Failed to parse structured data"
         ELSE "none"

\* A response that does not parse is answered by asking the model once more.
StructureResponseRetries(p) ==
  /\ proc[p].pc = "structAwait"
  /\ \E o \in StructureOutcomes :
       LET r == [proc[p] EXCEPT !.structOutcome = o]
           e == StructureError(o, r.menu)
       IN  IF e = "none"
             THEN Set(p, SaveEntry(r, r.userId, r.imageHash, r.menu))
             ELSE IF e = "Failed to parse structured data" /\ r.structureCalls < 2
                    THEN Set(p, [r EXCEPT !.pc = "ocrDone"])
                    ELSE Set(p, [r EXCEPT !.pc = "failed", !.error = e])
  /\ UNCHANGED << store, uuidCount, runs, failures, digest >>

\* The response is parsed; the structured result is hashed and saved.
StructureResponse(p) ==
  /\ proc[p].pc = "structAwait"
  /\ \E o \in StructureOutcomes :
       LET r == [proc[p] EXCEPT !.structOutcome = o]
           e == StructureError(o, r.menu)
       IN  IF e = "none"
             THEN Set(p, SaveEntry(r, r.userId, r.imageHash, r.menu))
             ELSE Set(p, [r EXCEPT !.pc = "failed", !.error = e])
  /\ UNCHANGED << store, uuidCount, runs, failures, digest >>

\* ------------------------------------------------------------ HashComputer
\* Two values are handed to calculateContentHash.
InitHash ==
  /\ user_profile = {}
  /\ canonical_menus = {}
  /\ menu_scan = {}
  /\ menu_dishes = {}
  /\ proc = [p \in Procs |-> IdleProc]
  /\ uuidCount = 0
  /\ runs = 0
  /\ failures = 0
  /\ digest \in {[a |-> i, b |-> j, da |-> Null, db |-> Null] : i, j \in HashIds}

\* calculateContentHash is applied to both.
HashBoth ==
  /\ digest.da = Null
  /\ digest' = [digest EXCEPT !.da = calculateContentHashJson(digest.a),
                              !.db = calculateContentHashJson(digest.b)]
  /\ UNCHANGED << store, proc, uuidCount, runs, failures >>

NextHash == HashBoth

SpecHash == InitHash /\ [][NextHash]_vars

Next ==
  \/ \E p \in Procs, r \in Requests : StartSave(p, r[1], r[2], r[3])
  \/ \E p \in Procs : CheckUserScan(p)
  \/ \E p \in Procs : EnsureUserSelect(p)
  \/ \E p \in Procs : EnsureUserInsert(p)
  \/ \E p \in Procs : CheckCanonical(p)
  \/ \E p \in Procs : ReuseInsertScan(p)
  \/ \E p \in Procs : InsertCanonical(p)
  \/ \E p \in Procs : InsertScan(p)
  \/ \E p \in Procs : UpdateFirstScan(p)
  \/ \E p \in Procs : InsertDishBatch(p)

\* Concurrent calls of saveToSupabase.
Spec == Init /\ [][Next]_vars

NextPipe ==
  \/ \E p \in Procs, r \in Requests : StartPipeline(p, r[1], r[2], r[3])
  \/ \E p \in Procs : OcrHeaders(p)
  \/ \E p \in Procs : OcrTimeout(p)
  \/ \E p \in Procs : OcrResponse(p)
  \/ \E p \in Procs : StructureCall(p)
  \/ \E p \in Procs : StructureResponse(p)
  \/ \E p \in Procs : CheckUserScan(p)
  \/ \E p \in Procs : EnsureUserSelect(p)
  \/ \E p \in Procs : EnsureUserInsert(p)
  \/ \E p \in Procs : CheckCanonical(p)
  \/ \E p \in Procs : ReuseInsertScan(p)
  \/ \E p \in Procs : InsertCanonical(p)
  \/ \E p \in Procs : InsertScan(p)
  \/ \E p \in Procs : UpdateFirstScan(p)
  \/ \E p \in Procs : InsertDishBatch(p)

\* Successive runs of the whole pipeline.
SpecPipe == Init /\ [][NextPipe]_vars

\* Successive runs of the pipeline in which an armed deadline timer fires
\* unless the attempt has left its wait before.
SpecPipeFair == SpecPipe /\ \A p \in Procs : WF_vars(OcrTimeout(p))

\* ------------------------------------------------------------------ claims
\* The text is a string of at least 20 characters after trimming.
ValidText(t) == t # NoContent /\ Len(Trim(OcrTexts[t])) >= 20

C2_ExhaustedPersistsNothing ==
  \A p \in Procs :
    LET r == proc[p]
    IN  (/\ Len(r.calls) = Len(OCR_MODEL_CHAIN)
         /\ r.pc # "ocrAwait"
         /\ ~(r.lastResponse.kind = "ok" /\ ValidText(r.lastResponse.text)))
          => /\ r.pc = "failed"
             /\ r.error = "OCR failed"
             /\ r.writes = <<>>
             /\ store = r.storeAtStart

\* C2 witness: a run failed in the chain over a store that an earlier run
\* had filled.
C2_Witness ==
  \E p \in Procs :
    /\ proc[p].pc = "failed"
    /\ proc[p].error = "OCR failed"
    /\ Len(proc[p].calls) = Len(OCR_MODEL_CHAIN)
    /\ menu_scan # {}
    /\ menu_dishes # {}

ScansOf(u, h) == {s \in menu_scan : s.user_id = u /\ s.image_hash = h}

DishRowsOf(c) == {d \in menu_dishes : d.canonical_menu_id = c}

\* C3: a save for a user and image hash of which that user already had a
\* menu_scan row when it was called returns 'duplicate_image_hash' with the id
\* of a prior scan and has performed no write.
C3_DuplicateScanNoWrite ==
  \A p \in Procs :
    (proc[p].pc = "done" /\ proc[p].priorScans # {})
      => /\ proc[p].result.method = "duplicate_image_hash"
         /\ proc[p].result.scanId \in proc[p].priorScans
         /\ proc[p].writes = <<>>

\* C4: at most one menu_scan row exists per (user_id, image_hash), and every
\* finished save for the pair returned the id of that row.
C4_OneScanPerUserImage ==
  /\ \A s1, s2 \in menu_scan :
       (s1.user_id = s2.user_id /\ s1.image_hash = s2.image_hash) => s1 = s2
  /\ \A p \in Procs :
       proc[p].pc = "done"
         => \A s \in ScansOf(proc[p].userId, proc[p].imageHash) : proc[p].result.scanId = s.id

C6_ConflictBecomesReuse ==
  \A p \in Procs :
    proc[p].pc = "failed" => proc[p].error # "Canonical menu insert failed: duplicate key"

\* C7, the result: a save that found an existing canonical menu and returned
\* has inserted exactly one menu_scan row, linked to that menu, and returned
\* 'canonical_menu_reuse' with that id and newDishes = false; its only other
\* possible write is the user profile.
C7_ReuseResult ==
  \A p \in Procs :
    LET r == proc[p]
    IN  /\ (r.pc = "done" /\ r.existingCanonicalMenu.id # Null)
             => /\ r.result.method = "canonical_menu_reuse"
                /\ r.result.canonicalId = r.existingCanonicalMenu.id
                /\ r.result.newDishes = FALSE
                /\ r.result.scanId = r.scanId
                /\ \E c \in canonical_menus :
                     c.id = r.result.canonicalId /\ c.content_hash = r.contentHash
                /\ Cardinality({s \in menu_scan : s.id = r.scanId}) = 1
                /\ \A s \in menu_scan :
                     s.id = r.scanId => /\ s.canonical_menu_id = r.existingCanonicalMenu.id
                                        /\ s.user_id = r.userId
                                        /\ s.image_hash = r.imageHash
                /\ r.writes \in {<<"menu_scan">>, <<"user_profile", "menu_scan">>}
        /\ (r.pc = "done" /\ r.result.method = "canonical_menu_reuse")
             => r.existingCanonicalMenu.id # Null

\* C7, the frame: a step of a save that has found an existing canonical menu
\* leaves canonical_menus and menu_dishes as they are and adds at most one
\* menu_scan row.
C7_ReuseFrame ==
  \A p \in Procs :
    (proc[p].existingCanonicalMenu.id # Null /\ proc'[p] # proc[p])
      => /\ canonical_menus' = canonical_menus
         /\ menu_dishes' = menu_dishes
         /\ menu_scan \subseteq menu_scan'
         /\ Cardinality(menu_scan') <= Cardinality(menu_scan) + 1

\* C7: the reuse path inserts one scan row linked to the existing canonical
\* menu and touches neither canonical_menus nor menu_dishes.
C7_CanonicalReuse == []C7_ReuseResult /\ [][C7_ReuseFrame]_vars

\* C7 witness: another user's scan of the same content was linked to the
\* canonical menu that the first scan created.
C7_Witness ==
  \E p \in Procs :
    /\ proc[p].pc = "done"
    /\ proc[p].result.method = "canonical_menu_reuse"
    /\ \E s \in menu_scan :
         /\ s.canonical_menu_id = proc[p].result.canonicalId
         /\ s.user_id # proc[p].userId
    /\ menu_dishes # {}

\* C8: every menu_scan row has a non-null canonical_menu_id that is the id of
\* exactly one canonical_menus row.
C8_ScanReferencesOneMenu ==
  \A s \in menu_scan :
    /\ s.canonical_menu_id # Null
    /\ Cardinality({c \in canonical_menus : c.id = s.canonical_menu_id}) = 1

\* C8 witness: scans linked to two different canonical menus, one of them
\* shared by two scans.
C8_Witness ==
  /\ Cardinality(canonical_menus) = 2
  /\ Cardinality(menu_scan) = 2
  /\ \E s1, s2 \in menu_scan : s1.canonical_menu_id # s2.canonical_menu_id

\* The number of dishes of each sample menu.
ExpectedDishCount == <<12, 12, 21, 1>>

\* C9 as claimed: the stored dish_count of every canonical_menus row equals
\* the number of menu_dishes rows inserted for it.
C9_DishCountIsInserted ==
  \A c \in canonical_menus : c.dish_count = Cardinality(DishRowsOf(c.id))

\* C9 amended: dish_count is the number of dishes of the structured menu that
\* the creating save was given; the rows inserted for the menu are never more
\* than that, and are exactly that many once the creating save has returned
\* without a failed batch.
C9_DishCountIsAttempted ==
  /\ \A c \in canonical_menus :
       /\ c.dish_count = ExpectedDishCount[c.content_hash]
       /\ Cardinality(DishRowsOf(c.id)) <= c.dish_count
  /\ \A p \in Procs :
       (proc[p].pc = "done" /\ proc[p].canonicalId # Null)
         => \E c \in canonical_menus :
              /\ c.id = proc[p].canonicalId
              /\ (proc[p].dishErrors = 0 => Cardinality(DishRowsOf(c.id)) = c.dish_count)
              /\ (proc[p].dishErrors > 0 => Cardinality(DishRowsOf(c.id)) < c.dish_count)

\* C9 witness: a save returned after a failed batch, leaving fewer rows than
\* the stored dish_count.
C9_Witness ==
  \E p \in Procs :
    /\ proc[p].pc = "done"
    /\ proc[p].dishErrors > 0
    /\ \E c \in canonical_menus :
         /\ c.id = proc[p].canonicalId
         /\ c.dish_count = 21
         /\ Cardinality(DishRowsOf(c.id)) = 11

\* C10: a save that found no canonical menu and returned without a failed
\* write returns 'new_canonical_menu', newDishes = true and dishCount = n, the
\* number of dishes of its menu; the canonical_menus row it created has
\* dish_count = n and exactly n menu_dishes rows reference it, one per dish.
C10_NewMenuAllDishes ==
  \A p \in Procs :
    LET r == proc[p]
        n == ExpectedDishCount[r.menu]
        all == allDishes(MenuSamples[r.menu].categories)
    IN  (r.pc = "done" /\ r.existingScan.id = Null /\ r.existingCanonicalMenu.id = Null
           /\ r.dishErrors = 0)
          => /\ r.result.method = "new_canonical_menu"
             /\ r.result.newDishes = TRUE
             /\ r.result.dishCount = n
             /\ r.result.scanId = r.scanId
             /\ Cardinality({c \in canonical_menus : c.id = r.result.canonicalId}) = 1
             /\ \A c \in canonical_menus :
                  c.id = r.result.canonicalId
                    => c.dish_count = n /\ c.content_hash = r.contentHash
             /\ Cardinality(DishRowsOf(r.result.canonicalId)) = n
             /\ Len(all) = n
             /\ \A k \in 1..n :
                  \E d \in DishRowsOf(r.result.canonicalId) :
                    d.dish_name = all[k].name /\ d.category = all[k].category

\* C10 witness: a 21-dish menu was saved as new, in three batches.
C10_Witness ==
  \E p \in Procs :
    /\ proc[p].pc = "done"
    /\ proc[p].result.method = "new_canonical_menu"
    /\ proc[p].result.dishCount = 21
    /\ proc[p].dishErrors = 0

\* The number of occurrences of x in the sequence s.
Count(s, x) == Cardinality({k \in 1..Len(s) : s[k] = x})

\* The number of batches of n dishes.
Batches(n) == (n + 9) \div 10

\* C11: a save of new content returns although dish batches failed: every
\* batch was attempted (the failed and the committed ones add up to all the
\* batches), and the returned dishCount is the number of dish rows that the
\* committed batches left in menu_dishes.
C11_FailedBatchTolerated ==
  \A p \in Procs :
    LET r == proc[p]
        n == ExpectedDishCount[r.menu]
    IN  /\ (r.pc = "done" /\ r.canonicalId # Null)
             => /\ r.result.method = "new_canonical_menu"
                /\ r.result.dishCount = Cardinality(DishRowsOf(r.canonicalId))
                /\ r.dishErrors + Count(r.writes, "menu_dishes") = Batches(n)
                /\ r.i >= n
        /\ r.dishErrors > 0 => r.pc \in {"insertDishes", "done"}

\* C11 witness: batch 2 of 3 failed, batches 1 and 3 committed 10 + 1 rows.
C11_Witness ==
  \E p \in Procs :
    /\ proc[p].pc = "done"
    /\ proc[p].dishErrors = 1
    /\ proc[p].result.dishCount = 11
    /\ \E d \in DishRowsOf(proc[p].canonicalId) : d.dish_name = DishName(1)
    /\ \E d \in DishRowsOf(proc[p].canonicalId) : d.category = <<"B">> /\ d.id = 11
    /\ ~ \E d \in DishRowsOf(proc[p].canonicalId) : d.dish_name = DishName(11)

\* C12: when two saves of the same new user run ensureUserExists at the same
\* time, one user_profile row results and neither call fails on the
\* unique-constraint conflict of its insert.
C12_EnsureUserRaceTolerated ==
  \A p \in Procs :
    /\ proc[p].pc = "failed" => proc[p].error # "User creation failed: duplicate key"
    /\ proc[p].pc \in {"checkCanonical", "reuseInsertScan", "insertCanonical"}
         => proc[p].userId \in user_profile

\* The place of a write in the order of the save protocol.
WriteRank(w) ==
  CASE w = "user_profile" -> 1
    [] w = "canonical_menus" -> 2
    [] w = "menu_scan" -> 3
    [] w = "first_scan_id" -> 4
    [] w = "menu_dishes" -> 5

\* C13: the writes of one save come in the order user profile, canonical
\* menu, scan, first_scan_id, dish batches, each of the first four at most
\* once; no dish row exists before the first_scan_id update was tried or
\* without the scan row of its canonical menu, and no scan row without its
\* canonical menu.
C13_WriteOrder ==
  /\ \A p \in Procs :
       LET w == proc[p].writes
       IN  /\ \A j, k \in 1..Len(w) :
                j < k => /\ WriteRank(w[j]) <= WriteRank(w[k])
                         /\ (WriteRank(w[j]) = WriteRank(w[k]) => w[j] = "menu_dishes")
           /\ (proc[p].canonicalId # Null /\ Count(w, "menu_dishes") > 0)
                => Count(w, "canonical_menus") = 1 /\ Count(w, "menu_scan") = 1
           /\ (proc[p].canonicalId # Null /\ Count(w, "menu_scan") > 0)
                => Count(w, "canonical_menus") = 1
           /\ proc[p].pc \in {"insertCanonical", "insertScan", "updateFirstScan"}
                => /\ DishRowsOf(proc[p].canonicalId) = {}
                   /\ Count(w, "menu_dishes") = 0
  /\ \A d \in menu_dishes :
       /\ \E s \in menu_scan : s.canonical_menu_id = d.canonical_menu_id
       /\ \E c \in canonical_menus : c.id = d.canonical_menu_id
  /\ \A s \in menu_scan : \E c \in canonical_menus : c.id = s.canonical_menu_id

\* C13 witness: a save of new content by a new user made all five kinds of
\* write, with two dish batches.
C13_Witness ==
  \E p \in Procs :
    /\ proc[p].pc = "done"
    /\ proc[p].writes = << "user_profile", "canonical_menus", "menu_scan", "first_scan_id",
                           "menu_dishes", "menu_dishes" >>

CanonicalInsertErrors ==
  {"Canonical menu insert failed: network error", "Canonical menu insert failed: duplicate key"}

\* C14, the state of a failed save: after a failed canonical_menus insert the
\* save has written no canonical menu, scan or dish; after a failed menu_scan
\* insert it has written no scan and no dish, and in the new-content path its
\* canonical_menus row is still there, without first_scan_id and without dish
\* rows.  A save that is past a required write has committed it.
C14_FailedSaveState ==
  \A p \in Procs :
    LET r == proc[p]
    IN  /\ (r.pc = "failed" /\ r.error \in CanonicalInsertErrors)
             => /\ r.canonicalId = Null
                /\ r.writes \in {<<>>, <<"user_profile">>}
                /\ ~ \E s \in menu_scan : s.id = r.scanId
        /\ (r.pc = "failed" /\ r.error = "Scan insert failed")
             => /\ ~ \E s \in menu_scan : s.id = r.scanId
                /\ Count(r.writes, "menu_scan") = 0
                /\ Count(r.writes, "first_scan_id") = 0
                /\ Count(r.writes, "menu_dishes") = 0
                /\ r.canonicalId # Null
                     => /\ Count(r.writes, "canonical_menus") = 1
                        /\ \E c \in canonical_menus :
                             /\ c.id = r.canonicalId
                             /\ c.content_hash = r.contentHash
                             /\ c.first_scan_id = Null
                        /\ DishRowsOf(r.canonicalId) = {}
        /\ r.pc \in {"updateFirstScan", "insertDishes"}
             => \E s \in menu_scan : s.id = r.scanId /\ s.canonical_menu_id = r.canonicalId
        /\ r.pc = "insertScan" => \E c \in canonical_menus : c.id = r.canonicalId

\* C14, the steps of a failed save: it does nothing more; the process only
\* changes when a new save is started on it, which writes nothing.
C14_FailedSaveStops ==
  \A p \in Procs :
    (proc[p].pc = "failed" /\ proc'[p] # proc[p])
      => /\ proc'[p].pc = "checkUserScan"
         /\ proc'[p].writes = <<>>
         /\ store' = store

\* C14: a failed required write ends the save at once, with the earlier
\* writes left committed and no later write made.
C14_RequiredWriteFailure == []C14_FailedSaveState /\ [][C14_FailedSaveStops]_vars

\* C14 witness: the menu_scan insert of a save of new content failed and the
\* canonical menu it had inserted is an orphan.
C14_Witness ==
  \E p \in Procs :
    /\ proc[p].pc = "failed"
    /\ proc[p].error = "Scan insert failed"
    /\ proc[p].canonicalId # Null
    /\ \E c \in canonical_menus : c.id = proc[p].canonicalId
    /\ ~ \E s \in menu_scan : s.canonical_menu_id = proc[p].canonicalId

\* C15: a save never fails once its menu_scan row is written; a new-content
\* save whose first_scan_id update did not commit goes on to the dish batches
\* and returns the same 'new_canonical_menu' result, its canonical menu's
\* first_scan_id staying null; when the update committed it is the scan id.
C15_FirstScanIdBestEffort ==
  \A p \in Procs :
    LET r == proc[p]
        n == ExpectedDishCount[r.menu]
    IN  /\ r.pc = "failed" => Count(r.writes, "menu_scan") = 0
        /\ (r.canonicalId # Null /\ r.pc \in {"insertDishes", "done"})
             => \E c \in canonical_menus :
                  /\ c.id = r.canonicalId
                  /\ c.first_scan_id =
                       IF Count(r.writes, "first_scan_id") = 0 THEN Null ELSE r.scanId
        /\ (r.canonicalId # Null /\ r.pc = "done")
             => /\ r.result = [scanId |-> r.scanId, method |-> "new_canonical_menu",
                               canonicalId |-> r.canonicalId,
                               dishCount |-> Cardinality(DishRowsOf(r.canonicalId)),
                               newDishes |-> TRUE]
                /\ r.dishErrors = 0 => Cardinality(DishRowsOf(r.canonicalId)) = n

\* C15 witness: the update failed and the save still returned with all 12
\* dishes inserted.
C15_Witness ==
  \E p \in Procs :
    /\ proc[p].pc = "done"
    /\ proc[p].result.method = "new_canonical_menu"
    /\ proc[p].result.dishCount = 12
    /\ Count(proc[p].writes, "first_scan_id") = 0
    /\ failures = 1
    /\ \E c \in canonical_menus : c.id = proc[p].canonicalId /\ c.first_scan_id = Null

\* C16, one lookup step: the user-scan lookup classifies the save as a user
\* duplicate exactly when a menu_scan row of this user with this image hash
\* exists, and then no canonical lookup follows; the canonical lookup
\* classifies it as a canonical match exactly when a canonical_menus row with
\* this content hash exists, and as novel otherwise.
C16_ClassificationStep ==
  \A p \in Procs :
    LET r == proc[p]
    IN  /\ (r.pc = "checkUserScan" /\ proc'[p] # r)
             => /\ (proc'[p].result.method = "duplicate_image_hash")
                     <=> (ScansOf(r.userId, r.imageHash) # {})
                /\ (proc'[p].pc = "done") <=> (ScansOf(r.userId, r.imageHash) # {})
                /\ (proc'[p].pc = "ensureUserSelect") <=> (ScansOf(r.userId, r.imageHash) = {})
        /\ (r.pc = "checkCanonical" /\ proc'[p] # r)
             => /\ (proc'[p].pc = "reuseInsertScan")
                     <=> (\E c \in canonical_menus : c.content_hash = r.contentHash)
                /\ (proc'[p].pc = "insertCanonical")
                     <=> ~(\E c \in canonical_menus : c.content_hash = r.contentHash)

\* C16: the dedup classification follows the rows that exist at the lookup.
C16_Classification == [][C16_ClassificationStep]_vars

\* C17: a run whose every provider failed ends with a failure that carries one
\* sub-failure per provider, in the configured order, each one of Timeout,
\* ProviderError or InsufficientOutput.
C17_ExhaustedCarriesSubFailures ==
  \A p \in Procs :
    (proc[p].pc = "failed" /\ proc[p].error = OcrExhaustedError.message)
      => /\ "subFailures" \in DOMAIN OcrExhaustedError
         /\ Len(OcrExhaustedError.subFailures) = Len(OCR_MODEL_CHAIN)
         /\ \A i \in 1..Len(OCR_MODEL_CHAIN) :
              OcrExhaustedError.subFailures[i]
                \in {"Timeout", "ProviderError", "InsufficientOutput"}

\* C18: during one run of the cascade at most one provider request is
\* outstanding, and the providers are invoked in strictly increasing order of
\* their position in the chain, so none is invoked twice or returned to.
C18_OneAtATimeInOrder ==
  \A p \in Procs :
    /\ Cardinality(proc[p].pending) <= 1
    /\ \A i \in DOMAIN proc[p].calls : proc[p].calls[i] \in 1..Len(OCR_MODEL_CHAIN)
    /\ \A i, j \in DOMAIN proc[p].calls :
         i < j => proc[p].calls[i] < proc[p].calls[j]
    /\ \A k \in proc[p].pending : k = proc[p].calls[Len(proc[p].calls)]

C18_Witness ==
  \E p \in Procs :
    /\ Len(proc[p].calls) = Len(OCR_MODEL_CHAIN)
    /\ proc[p].pending = {Len(OCR_MODEL_CHAIN)}

\* C19: a run whose structuring response was not valid JSON, or was JSON
\* without a `categories` key, has failed with the parse failure after exactly
\* one call of the structuring model, and has written nothing: the four tables
\* are as they were when the run started.
C19_ParseFailureNoRetryNoWrite ==
  \A p \in Procs :
    LET r == proc[p]
    IN  r.structOutcome \in {"invalid_json", "no_categories"}
          => /\ r.pc = "failed"
             /\ r.error = "Failed to parse structured data"
             /\ r.structureCalls = 1
             /\ r.writes = <<>>
             /\ store = r.storeAtStart

\* C19 witness: a run failed on a response without `categories`, over a store
\* that an earlier run had filled.
C19_Witness ==
  \E p \in Procs :
    /\ proc[p].structOutcome = "no_categories"
    /\ proc[p].pc = "failed"
    /\ proc[p].ocrResult.success
    /\ menu_dishes # {}

\* C20: every menu_dishes row has a non-empty dish_name, because a structured
\* menu in which a dish has no name is rejected before it is saved.
C20_DishNamesNonEmpty ==
  /\ \A d \in menu_dishes : d.dish_name # << >>
  /\ \A p \in Procs :
       (/\ proc[p].structOutcome = "ok"
        /\ \E k \in DOMAIN allDishes(MenuSamples[proc[p].menu].categories) :
             allDishes(MenuSamples[proc[p].menu].categories)[k].name = << >>)
         => proc[p].pc = "failed" /\ proc[p].error = "Failed to parse structured data"

\* C21, one step: every menu_scan, menu_dishes and user_profile row that
\* exists is still there unchanged, and every canonical_menus row is still
\* there with the same id, content_hash and dish_count: at most its
\* first_scan_id has been set.
C21_WriteOnceStep ==
  /\ menu_scan \subseteq menu_scan'
  /\ menu_dishes \subseteq menu_dishes'
  /\ user_profile \subseteq user_profile'
  /\ \A c \in canonical_menus :
       /\ Cardinality({d \in canonical_menus' : d.id = c.id}) = 1
       /\ \E d \in canonical_menus' :
            /\ d.id = c.id
            /\ d.content_hash = c.content_hash
            /\ d.dish_count = c.dish_count
            /\ d.first_scan_id # c.first_scan_id
                 => c.first_scan_id = Null /\ d.first_scan_id # Null

\* C21: persisted rows are write-once across any sequence of saves.
C21_WriteOnce == [][C21_WriteOnceStep]_vars

\* C21 witness: a canonical menu has had its first_scan_id set and has then
\* been linked by a second scan, every table holding rows.
C21_Witness ==
  /\ \E c \in canonical_menus :
       /\ c.first_scan_id # Null
       /\ Cardinality({s \in menu_scan : s.canonical_menu_id = c.id}) >= 2
  /\ menu_dishes # {}
  /\ Cardinality(user_profile) >= 2

\* C22, one lookup step: the four tables are left as they are, and a lookup
\* whose query failed answers "not found": the save goes on to
\* ensureUserExists after the user-scan lookup, and to the insert of a new
\* canonical menu after the canonical lookup.
C22_LookupStep ==
  \A p \in Procs :
    LET r == proc[p]
    IN  /\ (r.pc = "checkUserScan" /\ proc'[p] # r)
             => /\ store' = store
                /\ failures' # failures
                     => /\ proc'[p].pc = "ensureUserSelect"
                        /\ proc'[p].existingScan = NullScan
        /\ (r.pc = "checkCanonical" /\ proc'[p] # r)
             => /\ store' = store
                /\ failures' # failures
                     => /\ proc'[p].pc = "insertCanonical"
                        /\ proc'[p].existingCanonicalMenu = NullMenu

\* C22: the dedup lookups write nothing and answer "not found" when they fail.
C22_LookupsReadOnlyTolerant == [][C22_LookupStep]_vars

\* C22 witness: the user-scan lookup of a save failed although a scan of this
\* image by this user existed when the save was entered, and the save has gone
\* on to ensureUserExists.
C22_Witness ==
  \E p \in Procs :
    /\ proc[p].pc = "ensureUserSelect"
    /\ proc[p].priorScans # {}
    /\ failures >= 1

\* The part of C23 that is about the branch taken: the method is
\* 'canonical_menu_reuse' exactly when the save linked its scan to a canonical
\* menu that the lookup had found, 'new_canonical_menu' exactly when the save
\* created a canonical menu; existingScan is present exactly with
\* 'duplicate_image_hash' and newDishes is true exactly with 'new_canonical_menu'.
C23_ResultShape ==
  \A p \in Procs :
    LET r == proc[p]
        m == r.result.method
    IN  r.pc = "done"
          => /\ m \in {"duplicate_image_hash", "canonical_menu_reuse", "new_canonical_menu"}
             /\ (m = "canonical_menu_reuse")
                  <=> /\ r.existingCanonicalMenu.id # Null
                      /\ \E s \in menu_scan : /\ s.id = r.scanId
                                              /\ s.canonical_menu_id = r.existingCanonicalMenu.id
             /\ (m = "new_canonical_menu") <=> (Count(r.writes, "canonical_menus") = 1)
             /\ ("existingScan" \in DOMAIN r.result) <=> (m = "duplicate_image_hash")
             /\ ("newDishes" \in DOMAIN r.result /\ r.result.newDishes)
                  <=> (m = "new_canonical_menu")

\* C23: every returned result names the path taken; in particular the method
\* is 'duplicate_image_hash' exactly when the user already had a scan of this
\* image.
C23_MethodMatchesPath ==
  /\ C23_ResultShape
  /\ \A p \in Procs :
       proc[p].pc = "done"
         => /\ proc[p].priorScans # {} => proc[p].result.method = "duplicate_image_hash"
            /\ proc[p].result.method = "duplicate_image_hash"
                 => \E s \in ScansOf(proc[p].userId, proc[p].imageHash) :
                      s.id = proc[p].result.scanId

C25_DeadlineCoversAttempt ==
  \A p \in Procs : proc[p].pending # {} => proc[p].timeoutId = "armed"

\* A run that waits for a provider ends with a success result or with the
\* all-models-failed error.
C25_CascadeTerminates ==
  \A p \in Procs : (proc[p].pc = "ocrAwait") ~> (proc[p].pc \in {"ocrDone", "failed"})

\* C25: every provider attempt is under its deadline for its whole duration,
\* the reading of the response body included, so that, the timer firing, every
\* run of the cascade terminates.
C25_AttemptBounded == []C25_DeadlineCoversAttempt /\ C25_CascadeTerminates

\* C26: no canonical menu has more menu_dishes rows than its dish_count, and
\* every menu_dishes row references a canonical_menus row that exists.
C26_DishRowsWithinCount ==
  /\ \A c \in canonical_menus : Cardinality(DishRowsOf(c.id)) <= c.dish_count
  /\ \A d \in menu_dishes : \E c \in canonical_menus : c.id = d.canonical_menu_id

\* C26 witness: the first of the three batches of a 21-dish menu is in.
C26_Witness ==
  \E p \in Procs :
    /\ proc[p].pc = "insertDishes"
    /\ proc[p].i = BATCH_SIZE
    /\ Cardinality(DishRowsOf(proc[p].canonicalId)) = BATCH_SIZE
    /\ \E c \in canonical_menus : c.id = proc[p].canonicalId /\ c.dish_count = 21

\* A first_scan_id that is set names a menu_scan row of that canonical menu.
C27_FirstScanLinked ==
  \A c \in canonical_menus :
    c.first_scan_id # Null
      => \E s \in menu_scan : s.id = c.first_scan_id /\ s.canonical_menu_id = c.id

\* One step: a first_scan_id that changes was unset before, and is set to the
\* scan id of the save that created this canonical menu and then inserted its
\* scan.
C27_FirstScanStep ==
  \A c \in canonical_menus : \A d \in canonical_menus' :
    (d.id = c.id /\ d.first_scan_id # c.first_scan_id)
      => /\ c.first_scan_id = Null
         /\ \E p \in Procs :
              /\ proc[p].pc = "updateFirstScan"
              /\ proc[p].canonicalId = c.id
              /\ proc[p].existingCanonicalMenu.id = Null
              /\ proc[p].writes = << "canonical_menus", "menu_scan" >>
                   \/ proc[p].writes = << "user_profile", "canonical_menus", "menu_scan" >>
              /\ d.first_scan_id = proc[p].scanId

\* C27: first_scan_id, once set, is the id of the scan that the creating save
\* inserted for this canonical menu; it is written at most once and no later
\* save changes it.
C27_FirstScanIdOrigin == []C27_FirstScanLinked /\ [][C27_FirstScanStep]_vars

\* C27 witness: a save has reused a canonical menu whose first_scan_id was set
\* by the save that created it.
C27_Witness ==
  \E p \in Procs :
    /\ proc[p].pc = "done"
    /\ proc[p].result.method = "canonical_menu_reuse"
    /\ \E c \in canonical_menus :
         /\ c.id = proc[p].result.canonicalId
         /\ c.first_scan_id # Null
         /\ c.first_scan_id # proc[p].scanId

UserErrors ==
  {"User check failed", "User creation failed: network error",
   "User creation failed: duplicate key"}

\* A save that failed in ensureUserExists has not looked up the canonical
\* menu and has written nothing.
C28_UserFailureState ==
  \A p \in Procs :
    (proc[p].pc = "failed" /\ proc[p].error \in UserErrors)
      => /\ proc[p].writes = <<>>
         /\ proc[p].scanId = Null
         /\ proc[p].existingCanonicalMenu = NullMenu

\* One step of ensureUserExists: when its query fails, or the insert meets an
\* existing profile, the save fails there, and canonical_menus, menu_scan and
\* menu_dishes are as before.
C28_UserFailureStep ==
  \A p \in Procs :
    LET r == proc[p]
    IN  (/\ r.pc \in {"ensureUserSelect", "ensureUserInsert"}
         /\ proc'[p] # r
         /\ failures' # failures \/ (r.pc = "ensureUserInsert" /\ UserIdConflict(r.userId)))
          => /\ proc'[p].pc = "failed"
             /\ proc'[p].error \in UserErrors
             /\ UNCHANGED << canonical_menus, menu_scan, menu_dishes >>

\* C28: a failure of ensureUserExists fails the save before the canonical
\* lookup and before any write to canonical_menus, menu_scan or menu_dishes.
C28_UserFailureStopsSave == []C28_UserFailureState /\ [][C28_UserFailureStep]_vars

\* C28 witness: a save failed on the profile insert while the store held the
\* rows of an earlier save.
C28_Witness ==
  \E p \in Procs :
    /\ proc[p].pc = "failed"
    /\ proc[p].error = "User creation failed: network error"
    /\ canonical_menus # {}
    /\ menu_scan # {}

====
